---------------------------- MODULE Spec2Model ----------------------------
(***************************************************************************)
(* Memeify feature extraction: the batch index builder                     *)
(* (scripts/build_index.py) and the single-item extractor                  *)
(* (scripts/embed_clip_pose.py).                                           *)
(*                                                                         *)
(* Conventions of the model                                                *)
(*  - A Python str is a sequence of character codes (ASCII), so that       *)
(*    comparison, lower(), split() and replace() are computed.             *)
(*  - A pathlib.Path is the sequence of its parts (each a str).            *)
(*  - A call that may raise returns an outcome [raised, val].              *)
(*  - Floating point values are exact: a coordinate is an integer number   *)
(*    of grid units, a normalised value is a pair <<num, rad>> (see        *)
(*    _pose_vector and _face_vector for the value each pair denotes).      *)
(***************************************************************************)
EXTENDS Integers, Sequences, FiniteSets, TLC

VARIABLES
    platform,   \* "posix" | "nt": the pathlib flavour and os.sep
    tree,       \* the files on disk: a set of [path, cv, pil, pix]
    roots,      \* args.roots: a sequence of str
    pc,         \* build_index.main: position
    files,      \* build_index.main: files (sorted list of Path)
    items,      \* build_index.main: items
    dest,       \* content of the file at args.out, a sequence of tokens
    argv,       \* embed_clip_pose: sys.argv[1:] (<<>> or <<path str>>)
    s_pc,       \* embed_clip_pose.main: position
    s_vecs,     \* embed_clip_pose.main: clip_vec, pose_vec, face_vec
    stdout,     \* embed_clip_pose: lines printed
    fn_pc,      \* function harness: which function was applied
    fn_in,      \* function harness: the file it was applied to
    fn_out      \* function harness: the outcome

vars == <<platform, tree, roots, pc, files, items, dest,
          argv, s_pc, s_vecs, stdout, fn_pc, fn_in, fn_out>>

batchVars  == <<pc, files, items, dest>>
singleVars == <<s_pc, s_vecs, stdout>>
fnVars     == <<fn_pc, fn_out>>
worldVars  == <<platform, tree, roots, argv, fn_in>>

(***************************************************************************)
(* Python values                                                           *)
(***************************************************************************)
\* None, and how a value that may be None is told from it
None == [none |-> TRUE]
IsNone(v) == v.none

Ok(v)    == [raised |-> FALSE, val |-> v]
Raise    == [raised |-> TRUE,  val |-> None]

Max(a, b) == IF a >= b THEN a ELSE b

\* characters
SLASH     == <<47>>
BACKSLASH == <<92>>
DOT       == <<46>>

\* str.lower() of one character / of a str (ASCII)
LowerChr(c) == IF c \in 65..90 THEN c + 32 ELSE c
lower(s) == [k \in 1..Len(s) |-> LowerChr(s[k])]

\* str.replace(a, b) for one-character a and b
replace(s, a, b) == [k \in 1..Len(s) |-> IF s[k] = a[1] THEN b[1] ELSE s[k]]

\* str.split(sep) for a one-character sep
RECURSIVE SplitFrom(_, _, _, _)
SplitFrom(s, sep, k, cur) ==
    IF k > Len(s) THEN <<cur>>
    ELSE IF s[k] = sep[1] THEN <<cur>> \o SplitFrom(s, sep, k + 1, <<>>)
    ELSE SplitFrom(s, sep, k + 1, Append(cur, s[k]))
split(s, sep) == SplitFrom(s, sep, 1, <<>>)

\* sep.join(parts)
RECURSIVE join(_, _)
join(sep, parts) ==
    IF Len(parts) = 0 THEN <<>>
    ELSE IF Len(parts) = 1 THEN parts[1]
    ELSE parts[1] \o sep \o join(sep, Tail(parts))

\* s.rfind(c): the last index of c in s (1-based), 0 when absent
rfind(s, c) ==
    LET hits == {k \in 1..Len(s) : s[k] = c[1]}
    IN  IF hits = {} THEN 0 ELSE CHOOSE k \in hits : \A j \in hits : j <= k

\* list.index(x): the first index of x in the list (1-based)
index(list, x) ==
    CHOOSE k \in 1..Len(list) : list[k] = x /\ \A j \in 1..(k - 1) : list[j] # x

\* Python's < on sequences (str: by character code; list: by element)
RECURSIVE StrLess(_, _)
StrLess(a, b) ==
    IF Len(b) = 0 THEN FALSE
    ELSE IF Len(a) = 0 THEN TRUE
    ELSE IF a[1] # b[1] THEN a[1] < b[1]
    ELSE StrLess(Tail(a), Tail(b))

RECURSIVE ListLess(_, _)
ListLess(a, b) ==
    IF Len(b) = 0 THEN FALSE
    ELSE IF Len(a) = 0 THEN TRUE
    ELSE IF a[1] # b[1] THEN StrLess(a[1], b[1])
    ELSE ListLess(Tail(a), Tail(b))

(***************************************************************************)
(* pathlib                                                                 *)
(***************************************************************************)
\* os.sep of the platform
sep(pf) == IF pf = "nt" THEN BACKSLASH ELSE SLASH

\* Path(s): the parts of s; both flavours split at "/", nt also at "\"
Path(pf, s) == split(IF pf = "nt" THEN replace(s, BACKSLASH, SLASH) ELSE s, SLASH)

\* str(p)
str(pf, p) == join(sep(pf), p)

\* Path.__lt__: the parts compared as lists, case-folded on nt
PathLess(pf, p, q) ==
    IF pf = "nt"
    THEN ListLess([k \in 1..Len(p) |-> lower(p[k])], [k \in 1..Len(q) |-> lower(q[k])])
    ELSE ListLess(p, q)

\* Path.suffix: the last dot of the name and what follows it, unless the
\* dot is the first or the last character of the name
suffix(p) ==
    LET name == p[Len(p)]
        i    == rfind(name, DOT)
    IN  IF 1 < i /\ i < Len(name) THEN SubSeq(name, i, Len(name)) ELSE <<>>

\* os.path.basename
basename(s) == LET i == rfind(s, SLASH) IN SubSeq(s, i + 1, Len(s))

\* os.path.splitext(s)[0]: s up to its last dot, when a character other
\* than a dot precedes that dot in the file name
splitext0(s) ==
    LET sepIndex == rfind(s, SLASH)
        dotIndex == rfind(s, DOT)
    IN  IF dotIndex > sepIndex
           /\ \E k \in (sepIndex + 1)..(dotIndex - 1) : s[k] # DOT[1]
        THEN SubSeq(s, 1, dotIndex - 1)
        ELSE s

IsPrefix(a, b) == Len(a) <= Len(b) /\ SubSeq(b, 1, Len(a)) = a

(***************************************************************************)
(* The files on disk and what the external collaborators answer for them   *)
(***************************************************************************)
\* the most files a tree holds
MaxFiles == 2

\* the length of the embedding the image encoder returns
EmbedDim == 2

\* path names used by the trees and the roots
n_public   == <<112, 117, 98, 108, 105, 99>>                \* "public"
n_uploads  == <<117, 112, 108, 111, 97, 100, 115>>          \* "uploads"
n_memes    == <<109, 101, 109, 101, 45, 116, 101, 109, 112, 108, 97, 116, 101, 115>>
                                                            \* "meme-templates"
n_a_png    == <<97, 46, 112, 110, 103>>                     \* "a.png"
n_a        == <<97>>                                        \* "a"
n_n_txt    == <<110, 46, 116, 120, 116>>                    \* "n.txt"
n_Pics     == <<80, 105, 99, 115>>                          \* "Pics"
n_Public   == <<80, 117, 98, 108, 105, 99>>                 \* "Public"
n_v_gif    == <<118, 46, 103, 105, 102>>                    \* "v.gif"
n_misc     == <<109, 105, 115, 99>>                         \* "misc"
n_E_x_GIF  == <<69, 46, 120, 46, 71, 73, 70>>               \* "E.x.GIF"
n_missing  == <<109, 105, 115, 115, 105, 110, 103>>         \* "missing"

\* the pictures a tree may hold (parts of the path)
p_upload == <<n_public, n_uploads, n_a_png>>               \* public/uploads/a.png
p_nested == <<n_public, n_uploads, n_a, n_a_png>>          \* public/uploads/a/a.png
p_pics   == <<n_Pics, n_Public, n_v_gif, n_public, n_a_png>>
                                                           \* Pics/Public/v.gif/public/a.png
p_misc   == <<n_misc, n_E_x_GIF>>                          \* misc/E.x.GIF
PicturePaths == {p_upload, p_nested, p_pics, p_misc}

\* a file that is no picture
p_text   == <<n_public, n_uploads, n_n_txt>>               \* public/uploads/n.txt

UniversePaths == PicturePaths \cup {p_text}

\* the argument lists --roots may be given; the first is the default (line 141)
RootsDefault == << join(SLASH, <<n_public, n_uploads>>), join(SLASH, <<n_public, n_memes>>) >>
RootsOverlap == << n_public, join(SLASH, <<n_public, n_uploads>>) >>
RootsOther   == << n_missing, n_Pics, n_misc >>
RootChoices  == {RootsDefault, RootsOverlap, RootsOther}

\* what the image encoder returns for a picture: a raw embedding
RawEmbedding == [k \in 1..EmbedDim |-> k + 2]

\* what a detector may answer: it raises, it reports no subject, or it
\* reports a subject (pose: the two shoulders; face: the offset of the mesh)
Raises    == [tag |-> "raise", a |-> 0, b |-> 0, c |-> 0, d |-> 0]
NoSubject == [tag |-> "none",  a |-> 0, b |-> 0, c |-> 0, d |-> 0]
Shoulders(Lx, Ly, Rx, Ry) == [tag |-> "subject", a |-> Lx, b |-> Ly, c |-> Rx, d |-> Ry]
Mesh(tx, ty)              == [tag |-> "subject", a |-> tx, b |-> ty, c |-> 0, d |-> 0]

PoseApart      == Shoulders(3, 1, 0, 1)
PoseCoincident == Shoulders(2, 2, 2, 2)
FaceAt         == Mesh(1, 0)

\* a picture: what each model answers when shown it
Pictures == [clip : {"raise", "vec"},
             pose : {Raises, NoSubject, PoseApart, PoseCoincident},
             face : {Raises, NoSubject, FaceAt}]

\* a file's content: whether cv2 decodes it, what PIL does with it, the picture
Contents == [cv : BOOLEAN, pil : {"ok", "noseek", "raise"}, pix : Pictures]

\* the contents the trees of the batch runs are drawn from
Good       == [cv |-> TRUE,  pil |-> "ok",
               pix |-> [clip |-> "vec", pose |-> PoseApart, face |-> FaceAt]]
Corrupt    == [cv |-> FALSE, pil |-> "raise",
               pix |-> [clip |-> "raise", pose |-> NoSubject, face |-> NoSubject]]
FaceThrows == [cv |-> FALSE, pil |-> "ok",
               pix |-> [clip |-> "vec", pose |-> PoseCoincident, face |-> Raises]]
BatchContents == {Good, Corrupt, FaceThrows}

File(p, c) == [path |-> p, cv |-> c.cv, pil |-> c.pil, pix |-> c.pix]

\* the trees: at most MaxFiles files of the universe, each picture with one
\* of the contents, the text file not decodable
Trees(contents) ==
    UNION { { {File(p, c[p]) : p \in P}
              : c \in {d \in [P -> contents \cup {Corrupt}] :
                          \A p \in P : p \notin PicturePaths => d[p] = Corrupt} }
            : P \in {Q \in SUBSET UniversePaths : Cardinality(Q) <= MaxFiles} }

(***************************************************************************)
(* External collaborators: cv2, PIL, open_clip, mediapipe                  *)
(***************************************************************************)
\* cv2.imread: a 3-channel BGR array of the first frame, or None
cv2_imread(f) ==
    IF f.cv THEN [none |-> FALSE, order |-> "BGR", channels |-> 3, frame |-> 0, pix |-> f.pix]
    ELSE None

\* the mode PIL opens a file in: palette for GIF, RGBA for PNG, else RGB
PilMode(p) ==
    LET e == lower(suffix(p))
    IN  IF e = <<46, 103, 105, 102>> THEN "P"
        ELSE IF e = <<46, 112, 110, 103>> THEN "RGBA" ELSE "RGB"

\* PIL.Image.open: raises on a file PIL cannot identify
Image_open(f) ==
    IF f.pil = "raise" THEN Raise
    ELSE Ok([mode |-> PilMode(f.path), frame |-> 0,
             seekable |-> (f.pil = "ok"), pix |-> f.pix])

\* Image.seek(n)
Image_seek(img, n) == IF img.seekable THEN Ok([img EXCEPT !.frame = n]) ELSE Raise

\* Image.convert(mode)
Image_convert(img, mode) == [img EXCEPT !.mode = mode]

\* np.array(pil): one channel per band of the mode
np_array(pil) ==
    [none |-> FALSE, order |-> pil.mode,
     channels |-> IF pil.mode = "RGB" THEN 3 ELSE IF pil.mode = "RGBA" THEN 4 ELSE 1,
     frame |-> pil.frame, pix |-> pil.pix]

\* cv2.cvtColor(img, COLOR_RGB2BGR | COLOR_BGR2RGB): swaps the first and
\* third channel; raises on an array without 3 or 4 channels
cv2_cvtColor(img) ==
    IF img.channels \notin {3, 4} THEN Raise
    ELSE Ok([img EXCEPT !.channels = 3,
                        !.order = IF img.order = "RGB" THEN "BGR"
                                  ELSE IF img.order = "BGR" THEN "RGB" ELSE @])

\* model.encode_image(preprocess(img)): the raw embedding, or raises
encode_image(img) == IF img.pix.clip = "raise" THEN Raise ELSE Ok(RawEmbedding)

\* the landmarks the pose detector gives for a subject: 33 of them, the
\* shoulders at indices 11 and 12 (0-based)
PoseLandmarks(s) ==
    [k \in 1..33 |->
        IF k = 12 THEN [x |-> s.a, y |-> s.b, visibility |-> 1]
        ELSE IF k = 13 THEN [x |-> s.c, y |-> s.d, visibility |-> 1]
        ELSE [x |-> k % 4, y |-> k % 3, visibility |-> k % 2]]

\* what a detector's process() returns: landmarks, or none found
NoLandmarks  == [found |-> FALSE, landmark |-> <<>>]
Landmarks(l) == [found |-> TRUE,  landmark |-> l]

\* mp_pose.Pose(...).process(rgb): res.pose_landmarks
pose_process(rgb) ==
    IF rgb.pix.pose.tag = "raise" THEN Raise
    ELSE IF rgb.pix.pose.tag = "none" THEN Ok(NoLandmarks)
    ELSE Ok(Landmarks(PoseLandmarks(rgb.pix.pose)))

\* the number of landmarks of one face: 468, and 10 iris landmarks more
\* when the mesh is made with refine_landmarks=True
FaceMeshLandmarkCount(refine_landmarks) == IF refine_landmarks THEN 478 ELSE 468

FaceLandmarks(s, n) ==
    [k \in 1..n |-> [x |-> s.a + (k % 3), y |-> s.b + (k % 2), z |-> k % 2]]

\* mp_face.FaceMesh(refine_landmarks=...).process(rgb): the landmarks of
\* res.multi_face_landmarks[0]
face_process(rgb, refine_landmarks) ==
    IF rgb.pix.face.tag = "raise" THEN Raise
    ELSE IF rgb.pix.face.tag = "none" THEN Ok(NoLandmarks)
    ELSE Ok(Landmarks(FaceLandmarks(rgb.pix.face, FaceMeshLandmarkCount(refine_landmarks))))

\* sum of g[k] for k in lo..hi
RECURSIVE SumRange(_, _, _)
SumRange(g, lo, hi) ==
    IF lo > hi THEN 0
    ELSE IF lo = hi THEN g[lo]
    ELSE LET mid == (lo + hi) \div 2
         IN  SumRange(g, lo, mid) + SumRange(g, mid + 1, hi)

\* ndarray.flatten() of an (n, 3) array given as a sequence of triples
flatten(pts) == [j \in 1..(3 * Len(pts)) |-> pts[((j - 1) \div 3) + 1][((j - 1) % 3) + 1]]

(***************************************************************************)
(* The file system as the programs see it                                  *)
(***************************************************************************)
\* Path.exists(): the path is a file of the tree or a directory above one
exists(t, p) == \E f \in t : IsPrefix(p, f.path)

\* Path.is_file()
is_file(t, p) == \E f \in t : f.path = p

\* the entries r.rglob("*") yields: every file and directory below r
rglob(t, r) ==
    UNION { {SubSeq(f.path, 1, n) : n \in (Len(r) + 1)..Len(f.path)}
            : f \in {g \in t : IsPrefix(r, g.path)} }

\* the file a path names; a path that names no file decodes with neither library
Disk(t, p) ==
    IF is_file(t, p) THEN CHOOSE f \in t : f.path = p
    ELSE [path |-> p, cv |-> FALSE, pil |-> "raise",
          pix |-> [clip |-> "raise", pose |-> NoSubject, face |-> NoSubject]]

\* the orders in which a set can be enumerated
RECURSIVE Orders(_)
Orders(S) ==
    IF S = {} THEN {<<>>}
    ELSE UNION { {<<e>> \o o : o \in Orders(S \ {e})} : e \in S }

(***************************************************************************)
(* scripts/build_index.py                                                  *)
(***************************************************************************)
IMG_EXTS == { <<46, 106, 112, 103>>,          \* ".jpg"
              <<46, 106, 112, 101, 103>>,     \* ".jpeg"
              <<46, 112, 110, 103>>,          \* ".png"
              <<46, 119, 101, 98, 112>>,      \* ".webp"
              <<46, 103, 105, 102>> }         \* ".gif"

\* the entries of one root that pass the test of line 40
Matching(t, r) == {p \in rglob(t, r) : lower(suffix(p)) \in IMG_EXTS /\ is_file(t, p)}

\* list.sort() of Paths: stable, by Path.__lt__
RECURSIVE insort(_, _, _)
insort(pf, sorted, p) ==
    IF Len(sorted) = 0 THEN <<p>>
    ELSE IF PathLess(pf, p, sorted[Len(sorted)])
         THEN Append(insort(pf, SubSeq(sorted, 1, Len(sorted) - 1), p), sorted[Len(sorted)])
         ELSE Append(sorted, p)

RECURSIVE sort(_, _)
sort(pf, list) ==
    IF Len(list) = 0 THEN <<>>
    ELSE insort(pf, sort(pf, SubSeq(list, 1, Len(list) - 1)), list[Len(list)])

\* the list _find_images appends to, root after root; scan[k] is the order
\* in which rglob yields the matching entries of root k
RECURSIVE Appended(_, _, _, _, _)
Appended(pf, t, rts, scan, k) ==
    IF k = 0 THEN <<>>
    ELSE Appended(pf, t, rts, scan, k - 1)
         \o (IF ~exists(t, Path(pf, rts[k])) THEN <<>> ELSE scan[k])

\* _find_images without the files.sort() of line 42
_find_images_Unsorted(pf, t, rts, scan) == Appended(pf, t, rts, scan, Len(rts))

_find_images(pf, t, rts, scan) == sort(pf, Appended(pf, t, rts, scan, Len(rts)))

\* the scans rglob may produce for the roots
Scans(pf, t, rts) ==
    {sc \in [1..Len(rts) -> UNION {Orders(Matching(t, Path(pf, rts[k]))) : k \in 1..Len(rts)}] :
        \A k \in 1..Len(rts) : sc[k] \in Orders(Matching(t, Path(pf, rts[k])))}

\* f / f.norm(dim=-1): entry k is f[k] / sqrt(rad), written <<f[k], rad>>
unit(v) ==
    LET rad == SumRange([k \in 1..Len(v) |-> v[k] * v[k]], 1, Len(v))
    IN  [k \in 1..Len(v) |-> <<v[k], rad>>]

_clip_embed(f) ==
    LET o == Image_open(f)
    IN  IF o.raised THEN Raise
        ELSE LET sk  == Image_seek(o.val, 0)
                 img == IF sk.raised THEN o.val ELSE sk.val
                 rgb == Image_convert(img, "RGB")
                 e   == encode_image(rgb)
             IN  IF e.raised THEN Raise ELSE Ok(unit(e.val))

\* the loader without the try of lines 76-82
_read_bgr_Unguarded(f) ==
    LET img == cv2_imread(f)
    IN  IF ~IsNone(img) THEN Ok(img)
        ELSE LET o == Image_open(f)
             IN  IF o.raised THEN Raise
                 ELSE LET sk == Image_seek(o.val, 0)
                      IN  IF sk.raised THEN Raise
                          ELSE cv2_cvtColor(np_array(Image_convert(sk.val, "RGB")))

_read_bgr(f) ==
    LET img == cv2_imread(f)
    IN  IF ~IsNone(img) THEN Ok(img)
        ELSE LET o == Image_open(f)
             IN  IF o.raised THEN Ok(None)
                 ELSE LET sk == Image_seek(o.val, 0)
                      IN  IF sk.raised THEN Ok(None)
                          ELSE LET pil == Image_convert(sk.val, "RGB")
                                   bgr == cv2_cvtColor(np_array(pil))
                               IN  IF bgr.raised THEN Ok(None) ELSE bgr

\* the normalisation about landmarks 10 and 11 instead of the shoulders
PoseNormalize_WrongShoulders(lm) ==
    LET L   == lm[11]
        R   == lm[12]
        cx2 == L.x + R.x
        cy2 == L.y + R.y
        sw2 == Max(2 * 2, (L.x - R.x) * (L.x - R.x) + (L.y - R.y) * (L.y - R.y))
    IN  flatten([k \in 1..Len(lm) |->
            << <<2 * lm[k].x - cx2, 4 * sw2>>,
               <<2 * lm[k].y - cy2, 4 * sw2>>,
               <<lm[k].visibility, 1>> >>])

\* the normalisation of lines 94-101; an x or y entry <<num, rad>> is the
\* value num / sqrt(rad), a visibility entry is <<visibility, 1>>.
\* Coordinates are in units of half the guard of line 97, so the guard is 2.
PoseNormalize(lm) ==
    LET L   == lm[12]
        R   == lm[13]
        cx2 == L.x + R.x
        cy2 == L.y + R.y
        sw2 == Max(2 * 2, (L.x - R.x) * (L.x - R.x) + (L.y - R.y) * (L.y - R.y))
    IN  flatten([k \in 1..Len(lm) |->
            << <<2 * lm[k].x - cx2, 4 * sw2>>,
               <<2 * lm[k].y - cy2, 4 * sw2>>,
               <<lm[k].visibility, 1>> >>])

_pose_vector(f) ==
    LET r == _read_bgr(f)
    IN  IF r.raised THEN Raise
        ELSE IF IsNone(r.val) THEN Ok(<<>>)
        ELSE LET rgb == cv2_cvtColor(r.val)
             IN  IF rgb.raised THEN Raise
                 ELSE LET res == pose_process(rgb.val)
                      IN  IF res.raised THEN Raise
                          ELSE IF ~res.val.found THEN Ok(<<>>)
                          ELSE Ok(PoseNormalize(res.val.landmark))

\* the normalisation of lines 122-133 for n landmarks; with
\* Sx, Sy the sums of x and y and rad the sum of (n x - Sx)^2 + (n y - Sy)^2,
\* an entry <<num, rad>> is the value (num / n) / (sqrt(rad / n^3) + 1e-6)
FaceScaled(lm, n, Sx, Sy, rad) ==
    flatten([k \in 1..n |->
        << <<n * lm[k].x - Sx, rad>>,
           <<n * lm[k].y - Sy, rad>>,
           <<n * lm[k].z, rad>> >>])

FaceCentered(lm, n, Sx, Sy) ==
    LET rads == {SumRange([k \in 1..n |-> (n * lm[k].x - Sx) * (n * lm[k].x - Sx)
                                          + (n * lm[k].y - Sy) * (n * lm[k].y - Sy)], 1, n)}
    IN  CHOOSE v \in {FaceScaled(lm, n, Sx, Sy, rad) : rad \in rads} : TRUE

FaceNormalize(lm) ==
    LET n    == Len(lm)
        sums == {<<SumRange([k \in 1..n |-> lm[k].x], 1, n),
                   SumRange([k \in 1..n |-> lm[k].y], 1, n)>>}
    IN  CHOOSE v \in {FaceCentered(lm, n, S[1], S[2]) : S \in sums} : TRUE

_face_vector(f) ==
    LET r == _read_bgr(f)
    IN  IF r.raised THEN Raise
        ELSE IF IsNone(r.val) THEN Ok(<<>>)
        ELSE LET rgb == cv2_cvtColor(r.val)
             IN  IF rgb.raised THEN Raise
                 ELSE LET res == face_process(rgb.val, TRUE)
                      IN  IF res.raised THEN Raise
                          ELSE IF ~res.val.found THEN Ok(<<>>)
                          ELSE Ok(FaceNormalize(res.val.landmark))

\* the projection without the lower() of line 158
LocalRel_CaseSensitive(rel) ==
    LET parts == split(rel, SLASH)
    IN  IF \E k \in 1..Len(parts) : parts[k] = n_public
        THEN join(SLASH, SubSeq(parts, index(parts, n_public) + 1, Len(parts)))
        ELSE rel

\* lines 157-163: the path below the first "public" component
LocalRel(rel) ==
    LET comps == split(rel, SLASH)
        parts == [k \in 1..Len(comps) |-> lower(comps[k])]
    IN  IF \E k \in 1..Len(parts) : parts[k] = n_public
        THEN join(SLASH, SubSeq(comps, index(parts, n_public) + 1, Len(comps)))
        ELSE rel

\* the three attempts of lines 165-178: an exception gives the empty list
\* the first attempt without its try
TryClip_NoCatch(f) == _clip_embed(f)

TryClip(f) == LET c == _clip_embed(f)  IN IF c.raised THEN Ok(<<>>) ELSE c
TryPose(f) == LET c == _pose_vector(f) IN IF c.raised THEN Ok(<<>>) ELSE c
TryFace(f) == LET c == _face_vector(f) IN IF c.raised THEN Ok(<<>>) ELSE c

\* lines 180-188: the record appended, unless an attempt let an exception out
ItemRecord(rel, clip, pose, face) ==
    IF clip.raised \/ pose.raised \/ face.raised THEN Raise
    ELSE Ok([id        |-> splitext0(basename(rel)),
             localPath |-> LocalRel(rel),
             clip_vec  |-> clip.val,
             pose_vec  |-> pose.val,
             face_vec  |-> face.val])

\* the loop body with one try around the three attempts, whose except
\* clause empties all three lists
LoopBody_SharedTry(pf, t, p) ==
    LET rel == replace(str(pf, p), BACKSLASH, SLASH)
        f   == Disk(t, p)
        Shared(clip, pose, face) ==
            IF clip.raised \/ pose.raised \/ face.raised
            THEN ItemRecord(rel, Ok(<<>>), Ok(<<>>), Ok(<<>>))
            ELSE ItemRecord(rel, clip, pose, face)
    IN  CHOOSE r \in {Shared(clip, pose, face) :
                        clip \in {_clip_embed(f)}, pose \in {_pose_vector(f)},
                        face \in {_face_vector(f)}} : TRUE

\* the body of the loop of lines 156-188 for Path p: the record appended,
\* or the exception that leaves the loop
LoopBody(pf, t, p) ==
    LET rel == replace(str(pf, p), BACKSLASH, SLASH)
        f   == Disk(t, p)
    IN  CHOOSE r \in {ItemRecord(rel, clip, pose, face) :
                        clip \in {TryClip(f)}, pose \in {TryPose(f)}, face \in {TryFace(f)}} : TRUE

\* json.dump(items, f, indent=2): the chunks written to the file, in order
Serialize(list) ==
    <<[tok |-> "["]>> \o [k \in 1..Len(list) |-> [tok |-> "item", rec |-> list[k]]]
                     \o <<[tok |-> "]"]>>

\* the index a previous run left at args.out
OldIndex ==
    Serialize(<< [id |-> <<111>>, localPath |-> <<111, 46, 112, 110, 103>>,
                  clip_vec |-> <<>>, pose_vec |-> <<>>, face_vec |-> <<>>] >>)

\* line 149: files = _find_images(args.roots), rglob scanning in any order
FindImages ==
    /\ pc = "start"
    /\ \E scan \in Scans(platform, tree, roots) :
          files' = _find_images(platform, tree, roots, scan)
    /\ pc' = "load"
    /\ UNCHANGED <<items, dest, worldVars, singleVars, fnVars>>

\* line 152: _load_clip() returns; the loop starts (or is skipped: no file)
LoadClip ==
    /\ pc = "load"
    /\ pc' = IF Len(files) = 0 THEN "write" ELSE "loop"
    /\ UNCHANGED <<files, items, dest, worldVars, singleVars, fnVars>>

\* line 152: open_clip.create_model_and_transforms raises
LoadClipFail ==
    /\ pc = "load"
    /\ pc' = "load_failed"
    /\ UNCHANGED <<files, items, dest, worldVars, singleVars, fnVars>>

\* lines 156-191: one iteration of the loop
ProcessItem ==
    /\ pc = "loop"
    /\ Len(items) < Len(files)
    /\ \E r \in {LoopBody(platform, tree, files[Len(items) + 1])} :
           IF r.raised
           THEN pc' = "loop_failed" /\ items' = items
           ELSE /\ items' = Append(items, r.val)
                /\ pc' = IF Len(items) + 1 = Len(files) THEN "write" ELSE "loop"
    /\ UNCHANGED <<files, dest, worldVars, singleVars, fnVars>>

\* line 193: open(out_path, "w") truncates the file
OpenOut ==
    /\ pc = "write"
    /\ dest' = <<>>
    /\ pc' = "writing"
    /\ UNCHANGED <<files, items, worldVars, singleVars, fnVars>>

\* line 194: json.dump writes the next chunk
WriteChunk ==
    /\ pc = "writing"
    /\ Len(dest) < Len(Serialize(items))
    /\ dest' = Append(dest, Serialize(items)[Len(dest) + 1])
    /\ pc' = pc
    /\ UNCHANGED <<files, items, worldVars, singleVars, fnVars>>

\* lines 194-197: the dump is complete, the file is closed
CloseOut ==
    /\ pc = "writing"
    /\ Len(dest) = Len(Serialize(items))
    /\ pc' = "done"
    /\ UNCHANGED <<files, items, dest, worldVars, singleVars, fnVars>>

\* lines 193-194: open or write raises (OSError); main ends with the exception
WriteFail ==
    /\ pc \in {"write", "writing"}
    /\ pc' = "write_failed"
    /\ UNCHANGED <<files, items, dest, worldVars, singleVars, fnVars>>

NoVecs == [clip_vec |-> <<>>, pose_vec |-> <<>>, face_vec |-> <<>>]

NoFile == Disk({}, <<>>)

BatchStart ==
    /\ pc = "start" /\ files = <<>> /\ items = <<>> /\ dest = OldIndex

SingleOff == argv = <<>> /\ s_pc = "off" /\ s_vecs = NoVecs /\ stdout = <<>>

FnOff == fn_pc = "off" /\ fn_in = NoFile /\ fn_out = Ok(None)

Init ==
    /\ platform \in {"posix", "nt"}
    /\ tree \in Trees(BatchContents)
    /\ roots \in RootChoices
    /\ BatchStart
    /\ SingleOff
    /\ FnOff

Next ==
    \/ FindImages
    \/ LoadClip
    \/ LoadClipFail
    \/ ProcessItem
    \/ OpenOut
    \/ WriteChunk
    \/ CloseOut
    \/ WriteFail

Spec == Init /\ [][Next]_vars

(***************************************************************************)
(* scripts/embed_clip_pose.py                                              *)
(***************************************************************************)
clip_embed(f) ==
    LET o == Image_open(f)
    IN  IF o.raised THEN Raise
        ELSE LET sk  == Image_seek(o.val, 0)
                 img == IF sk.raised THEN o.val ELSE sk.val
                 rgb == Image_convert(img, "RGB")
                 e   == encode_image(rgb)
             IN  IF e.raised THEN Raise ELSE Ok(unit(e.val))

\* _read_bgr of embed_clip_pose.py
read_bgr(f) ==
    LET img == cv2_imread(f)
    IN  IF ~IsNone(img) THEN Ok(img)
        ELSE LET o == Image_open(f)
             IN  IF o.raised THEN Ok(None)
                 ELSE LET sk == Image_seek(o.val, 0)
                      IN  IF sk.raised THEN Ok(None)
                          ELSE LET pil == Image_convert(sk.val, "RGB")
                                   bgr == cv2_cvtColor(np_array(pil))
                               IN  IF bgr.raised THEN Ok(None) ELSE bgr

\* the normalisation with a guard of 1e-3 instead of 1e-6
pose_normalize_OtherGuard(lm) ==
    LET L   == lm[12]
        R   == lm[13]
        cx2 == L.x + R.x
        cy2 == L.y + R.y
        sw2 == Max(2000 * 2000, (L.x - R.x) * (L.x - R.x) + (L.y - R.y) * (L.y - R.y))
    IN  flatten([k \in 1..Len(lm) |->
            << <<2 * lm[k].x - cx2, 4 * sw2>>,
               <<2 * lm[k].y - cy2, 4 * sw2>>,
               <<lm[k].visibility, 1>> >>])

\* lines 53-60, in the representation of PoseNormalize
pose_normalize(lm) ==
    LET L   == lm[12]
        R   == lm[13]
        cx2 == L.x + R.x
        cy2 == L.y + R.y
        sw2 == Max(2 * 2, (L.x - R.x) * (L.x - R.x) + (L.y - R.y) * (L.y - R.y))
    IN  flatten([k \in 1..Len(lm) |->
            << <<2 * lm[k].x - cx2, 4 * sw2>>,
               <<2 * lm[k].y - cy2, 4 * sw2>>,
               <<lm[k].visibility, 1>> >>])

pose_vector(f) ==
    LET r == read_bgr(f)
    IN  IF r.raised THEN Raise
        ELSE IF IsNone(r.val) THEN Ok(<<>>)
        ELSE LET rgb == cv2_cvtColor(r.val)
             IN  IF rgb.raised THEN Raise
                 ELSE LET res == pose_process(rgb.val)
                      IN  IF res.raised THEN Raise
                          ELSE IF ~res.val.found THEN Ok(<<>>)
                          ELSE Ok(pose_normalize(res.val.landmark))

\* lines 77-87, in the representation of FaceNormalize
face_scaled(lm, n, Sx, Sy, rad) ==
    flatten([k \in 1..n |->
        << <<n * lm[k].x - Sx, rad>>,
           <<n * lm[k].y - Sy, rad>>,
           <<n * lm[k].z, rad>> >>])

face_centered(lm, n, Sx, Sy) ==
    LET rads == {SumRange([k \in 1..n |-> (n * lm[k].x - Sx) * (n * lm[k].x - Sx)
                                          + (n * lm[k].y - Sy) * (n * lm[k].y - Sy)], 1, n)}
    IN  CHOOSE v \in {face_scaled(lm, n, Sx, Sy, rad) : rad \in rads} : TRUE

face_normalize(lm) ==
    LET n    == Len(lm)
        sums == {<<SumRange([k \in 1..n |-> lm[k].x], 1, n),
                   SumRange([k \in 1..n |-> lm[k].y], 1, n)>>}
    IN  CHOOSE v \in {face_centered(lm, n, S[1], S[2]) : S \in sums} : TRUE

face_vector(f) ==
    LET r == read_bgr(f)
    IN  IF r.raised THEN Raise
        ELSE IF IsNone(r.val) THEN Ok(<<>>)
        ELSE LET rgb == cv2_cvtColor(r.val)
             IN  IF rgb.raised THEN Raise
                 ELSE LET res == face_process(rgb.val, TRUE)
                      IN  IF res.raised THEN Raise
                          ELSE IF ~res.val.found THEN Ok(<<>>)
                          ELSE Ok(face_normalize(res.val.landmark))

\* the third attempt without its try
SingleTryFace_NoCatch(f) == face_vector(f)

\* the three attempts of lines 103-114
SingleTryClip(f) == LET c == clip_embed(f)  IN IF c.raised THEN Ok(<<>>) ELSE c
SingleTryPose(f) == LET c == pose_vector(f) IN IF c.raised THEN Ok(<<>>) ELSE c
SingleTryFace(f) == LET c == face_vector(f) IN IF c.raised THEN Ok(<<>>) ELSE c

\* the dict of lines 119-123, unless an attempt let an exception out
Features(clip, pose, face) ==
    IF clip.raised \/ pose.raised \/ face.raised THEN Raise
    ELSE Ok([clip_vec |-> clip.val, pose_vec |-> pose.val, face_vec |-> face.val])

\* lines 103-114 for the file at path
Extract(pf, t, path) ==
    LET f == Disk(t, Path(pf, path))
    IN  CHOOSE r \in {Features(clip, pose, face) :
                        clip \in {SingleTryClip(f)}, pose \in {SingleTryPose(f)},
                        face \in {SingleTryFace(f)}} : TRUE

\* the three lines printed around json.dumps(obj)
Envelope(obj) ==
    << [line |-> "###FEATURES_START###"],
       [line |-> "json", obj |-> obj],
       [line |-> "###FEATURES_END###"] >>

\* lines 129-130: the script is run, here on a picture whose index run has
\* ended (the two programs share nothing but the files they read)
Invoke ==
    /\ s_pc = "off"
    /\ pc = "done"
    /\ s_pc' = "start"
    /\ UNCHANGED <<s_vecs, stdout, worldVars, batchVars, fnVars>>

\* lines 91-95: no path argument
SingleProbe ==
    /\ s_pc = "start"
    /\ Len(argv) + 1 < 2
    /\ stdout' = stdout \o Envelope([clip_vec |-> <<>>, pose_vec |-> <<>>, face_vec |-> <<>>])
    /\ s_pc' = "done"
    /\ UNCHANGED <<s_vecs, worldVars, batchVars, fnVars>>

\* lines 97-101: the model loads
SingleLoad ==
    /\ s_pc = "start"
    /\ ~(Len(argv) + 1 < 2)
    /\ s_pc' = "loaded"
    /\ UNCHANGED <<s_vecs, stdout, worldVars, batchVars, fnVars>>

\* line 98: open_clip.create_model_and_transforms raises
SingleLoadFail ==
    /\ s_pc = "start"
    /\ ~(Len(argv) + 1 < 2)
    /\ s_pc' = "load_failed"
    /\ UNCHANGED <<s_vecs, stdout, worldVars, batchVars, fnVars>>

\* lines 103-114: the three attempts
SingleExtract ==
    /\ s_pc = "loaded"
    /\ \E r \in {Extract(platform, tree, argv[1])} :
           IF r.raised
           THEN s_pc' = "failed" /\ s_vecs' = s_vecs
           ELSE s_pc' = "extracted" /\ s_vecs' = r.val
    /\ UNCHANGED <<stdout, worldVars, batchVars, fnVars>>

\* lines 116-126: the envelope is printed
SingleEmit ==
    /\ s_pc = "extracted"
    /\ stdout' = stdout \o Envelope(s_vecs)
    /\ s_pc' = "done"
    /\ UNCHANGED <<s_vecs, worldVars, batchVars, fnVars>>

\* one picture, indexed by build_index.py and queried with embed_clip_pose.py
ItemPaths == {p_upload, p_misc}

InitItem ==
    /\ platform \in {"posix", "nt"}
    /\ \E p \in ItemPaths, c \in Contents :
          /\ tree = {File(p, c)}
          /\ roots = <<p[1]>>
          /\ argv \in {<<str(platform, p)>>}
                      \cup (IF c = Good THEN {<<>>, <<n_missing>>} ELSE {})
    /\ BatchStart
    /\ s_pc = "off" /\ s_vecs = NoVecs /\ stdout = <<>>
    /\ FnOff

NextItem ==
    \/ Next
    \/ Invoke
    \/ SingleProbe
    \/ SingleLoad
    \/ SingleLoadFail
    \/ SingleExtract
    \/ SingleEmit

SpecItem == InitItem /\ [][NextItem]_vars

(***************************************************************************)
(* The functions applied to one file each                                  *)
(***************************************************************************)
\* shoulder coordinates range over 0..Grid, in units of half the guard 1e-6
Grid == 3

p_jpeg  == <<n_misc, <<99, 46, 106, 112, 101, 103>> >>     \* misc/c.jpeg
FnPaths == {p_upload, p_jpeg, p_misc}

ShoulderContents ==
    {[cv |-> TRUE, pil |-> "ok",
      pix |-> [clip |-> "vec", pose |-> Shoulders(a, b, c, d), face |-> NoSubject]]
        : a \in 0..Grid, b \in 0..Grid, c \in 0..Grid, d \in 0..Grid}

Apply(name, out) ==
    /\ fn_pc = "ready"
    /\ fn_pc' = name
    /\ fn_out' = out
    /\ UNCHANGED <<worldVars, batchVars, singleVars>>

Apply_read_bgr    == Apply("_read_bgr", _read_bgr(fn_in))
Apply_clip_embed  == Apply("_clip_embed", _clip_embed(fn_in))
Apply_pose_vector == Apply("_pose_vector", _pose_vector(fn_in))
Apply_face_vector == Apply("_face_vector", _face_vector(fn_in))
Apply_s_read_bgr    == Apply("read_bgr", read_bgr(fn_in))
Apply_s_clip_embed  == Apply("clip_embed", clip_embed(fn_in))
Apply_s_pose_vector == Apply("pose_vector", pose_vector(fn_in))
Apply_s_face_vector == Apply("face_vector", face_vector(fn_in))

InitFn ==
    /\ platform = "posix" /\ tree = {} /\ roots = <<>>
    /\ pc = "off" /\ files = <<>> /\ items = <<>> /\ dest = OldIndex
    /\ SingleOff
    /\ fn_pc = "ready"
    /\ fn_out = Ok(None)
    /\ fn_in \in {File(p, c) : p \in FnPaths, c \in Contents}
                 \cup {File(p_upload, c) : c \in ShoulderContents}

NextFn ==
    \/ Apply_read_bgr
    \/ Apply_clip_embed
    \/ Apply_pose_vector
    \/ Apply_face_vector
    \/ Apply_s_read_bgr
    \/ Apply_s_clip_embed
    \/ Apply_s_pose_vector
    \/ Apply_s_face_vector

SpecFn == InitFn /\ [][NextFn]_vars

(***************************************************************************)
(* Properties                                                              *)
(***************************************************************************)
\* what an attempt contributes, given what its extractor did
Contribution(o) == IF o.raised THEN <<>> ELSE o.val

\* the file the single-item run was given
ArgFile == Disk(tree, Path(platform, argv[1]))

\* the loop is over
PastLoop == pc \in {"write", "writing", "done", "write_failed"}

\* C1: per-item fault isolation. In both programs every one of the three
\* fields of an image is what its own extractor returned, or the empty
\* list when that extractor raised, whatever the other two attempts did;
\* no exception of an attempt leaves the item.
C1_FaultIsolation ==
    /\ pc # "loop_failed"
    /\ s_pc # "failed"
    /\ \A k \in 1..Len(items) :
          LET f == Disk(tree, files[k])
          IN  /\ items[k].clip_vec = Contribution(_clip_embed(f))
              /\ items[k].pose_vec = Contribution(_pose_vector(f))
              /\ items[k].face_vec = Contribution(_face_vector(f))
    /\ PastLoop => Len(items) = Len(files)
    /\ (s_pc \in {"extracted", "done"} /\ Len(argv) = 1) =>
          /\ s_vecs.clip_vec = Contribution(clip_embed(ArgFile))
          /\ s_vecs.pose_vec = Contribution(pose_vector(ArgFile))
          /\ s_vecs.face_vec = Contribution(face_vector(ArgFile))

\* C1 witness: the face detector raised on an indexed image and the record
\* still holds its embedding and its pose
C1_Witness ==
    /\ pc = "done"
    /\ Len(items) = 1
    /\ _face_vector(Disk(tree, files[1])).raised
    /\ items[1].face_vec = <<>>
    /\ Len(items[1].clip_vec) > 0
    /\ Len(items[1].pose_vec) > 0

\* C2: the file at the destination is at every moment the complete
\* previous index or the complete new one.
C2_AtomicOverwrite ==
    \/ dest = OldIndex
    \/ Len(items) = Len(files) /\ dest = Serialize(items)

\* the record of one file, computed with no other file on disk
RecordAlone(p) == LoopBody(platform, {Disk(tree, p)}, p).val

\* C3: no failure of an image ends the run. The loop is never left by an
\* exception, while it runs a next file is left to process (the guard of
\* ProcessItem holds), every record is what its own file gives whatever
\* the other files are (checked while the loop runs and when it ends:
\* items is assigned nowhere else), and a run that ends has written a
\* record for every file.
C3_NeverAborted ==
    /\ pc # "loop_failed"
    /\ pc = "loop" => Len(items) < Len(files)
    /\ pc \in {"loop", "write"} =>
          \A k \in 1..Len(items) : items[k] = RecordAlone(files[k])
    /\ PastLoop => Len(items) = Len(files)
    /\ pc = "done" => dest = Serialize(items)

\* C3 witness: a run over two files ended and wrote both records, the
\* first of a file nothing decodes, the second fully populated
C3_Witness ==
    /\ pc = "done"
    /\ Len(items) = 2
    /\ dest = Serialize(items)
    /\ Disk(tree, files[1]).pil = "raise"
    /\ items[1].clip_vec = <<>> /\ items[1].pose_vec = <<>> /\ items[1].face_vec = <<>>
    /\ Len(items[2].clip_vec) > 0 /\ Len(items[2].pose_vec) > 0 /\ Len(items[2].face_vec) > 0

\* the name ends with one of the supported extensions, in any letter case,
\* after at least one other character
Supported(name) ==
    \E e \in IMG_EXTS :
        /\ Len(name) > Len(e)
        /\ lower(SubSeq(name, Len(name) - Len(e) + 1, Len(name))) = e

\* the existing roots a path lies below
RootsAbove(p) ==
    {k \in 1..Len(roots) :
        LET r == Path(platform, roots[k])
        IN  exists(tree, r) /\ Len(r) < Len(p) /\ IsPrefix(r, p)}

\* how many times a path is discovered: once per existing root above it
\* when it is a file with a supported extension, never otherwise
Discovered(p) ==
    IF is_file(tree, p) /\ Supported(p[Len(p)]) THEN Cardinality(RootsAbove(p)) ELSE 0

Occurrences(list, p) == Cardinality({k \in 1..Len(list) : list[k] = p})

Discovery == pc # "start"

\* C4 as stated: the written index has one record per discovered file, in
\* the lexicographic order of the path strings.
C4_Original ==
    pc = "done" =>
        /\ dest = Serialize(items)
        /\ Len(items) = Len(files)
        /\ \A j \in 1..Len(files) : \A k \in 1..Len(files) :
              j < k => ~StrLess(str(platform, files[k]), str(platform, files[j]))

\* C4 amended: the discovered files are the files below the existing roots
\* with a supported extension in any letter case, each once per root that
\* reaches it (a missing root gives none, nothing is deduplicated); they
\* are ordered as pathlib orders Paths, component by component (letter
\* case ignored on Windows), not as the path strings; the order is the
\* same whatever order the directory scan yields; the index written has the
\* record of each discovered file, in that order.
C4_PathOrder ==
    /\ Discovery =>
          /\ \A j \in 1..Len(files) : \A k \in 1..Len(files) :
                j < k => ~PathLess(platform, files[k], files[j])
          /\ \A p \in UniversePaths : Occurrences(files, p) = Discovered(p)
          /\ \A k \in 1..Len(files) : files[k] \in UniversePaths
          /\ \A scan \in Scans(platform, tree, roots) :
                files = _find_images(platform, tree, roots, scan)
    /\ pc = "done" =>
          dest = Serialize([k \in 1..Len(files) |-> RecordAlone(files[k])])

\* C4 witness: two files of the same base name, each reached through two
\* roots, give four records; the nested one comes first although its path
\* string is the greater
C4_Witness ==
    /\ pc = "done"
    /\ Len(files) = 4 /\ Len(dest) = 6
    /\ files[1] = files[2] /\ files[3] = files[4]
    /\ items[2].id = items[3].id
    /\ items[2].localPath # items[3].localPath
    /\ StrLess(str(platform, files[3]), str(platform, files[2]))

\* C8 as stated: pose_vec has 0 or 33 x 3 entries and face_vec has 0 or
\* 468 x 3 entries in every record.
C8_Lengths ==
    \A k \in 1..Len(items) :
        /\ Len(items[k].pose_vec) \in {0, 33 * 3}
        /\ Len(items[k].face_vec) \in {0, 468 * 3}

\* the first index of a component that is "public" in some letter case
Anchor(p) ==
    CHOOSE i \in 1..Len(p) :
        lower(p[i]) = n_public /\ \A j \in 1..(i - 1) : lower(p[j]) # n_public

\* C9: localPath has no backslash; it is the components after the first
\* component equal to "public" in any letter case, joined by "/" in their
\* original case, or all the components joined by "/" when none is; id is
\* the file name up to its last dot.
C9_PathProjection ==
    \A k \in 1..Len(items) :
        LET p    == files[k]
            name == p[Len(p)]
        IN  /\ \A i \in 1..Len(items[k].localPath) : items[k].localPath[i] # BACKSLASH[1]
            /\ items[k].localPath =
                  IF \E i \in 1..Len(p) : lower(p[i]) = n_public
                  THEN join(SLASH, SubSeq(p, Anchor(p) + 1, Len(p)))
                  ELSE join(SLASH, p)
            /\ items[k].id = SubSeq(name, 1, rfind(name, DOT) - 1)

\* C9 witness: on Windows, a path with "Public" before "public" is cut after
\* "Public", and a path without the anchor is kept whole, with "/"
C9_Witness ==
    /\ pc = "done"
    /\ platform = "nt"
    /\ Len(items) = 2
    /\ files[1] = p_misc /\ files[2] = p_pics
    /\ items[1].localPath = join(SLASH, p_misc)
    /\ items[1].id = <<69, 46, 120>>
    /\ items[2].localPath = join(SLASH, <<n_v_gif, n_public, n_a_png>>)
    /\ items[2].id = n_a

\* the lines on stdout are one envelope: START, one object with exactly
\* the three keys, END
IsEnvelope(out) ==
    /\ Len(out) = 3
    /\ out[1] = [line |-> "###FEATURES_START###"]
    /\ out[2].line = "json"
    /\ DOMAIN out[2].obj = {"clip_vec", "pose_vec", "face_vec"}
    /\ out[3] = [line |-> "###FEATURES_END###"]

\* C5 as stated: every invocation, with or without a path, ends with the
\* envelope on stdout.
C5_Original ==
    s_pc \in {"done", "failed", "load_failed"} => IsEnvelope(stdout)

\* C5 amended: stdout holds nothing or exactly the envelope. Without a
\* path argument the envelope with three empty vectors is emitted and no
\* model is loaded. With a path, once the embedding model has loaded the
\* envelope is emitted whatever attempts fail, a failed attempt as an
\* empty array; when loading the model raises, the program ends with
\* nothing on stdout.
C5_Envelope ==
    /\ s_pc # "failed"
    /\ s_pc = "done" => IsEnvelope(stdout)
    /\ s_pc # "done" => stdout = <<>>
    /\ (s_pc = "done" /\ Len(argv) = 0) => stdout[2].obj = NoVecs
    /\ (s_pc = "done" /\ Len(argv) = 1) =>
          stdout[2].obj = [clip_vec |-> Contribution(clip_embed(ArgFile)),
                           pose_vec |-> Contribution(pose_vector(ArgFile)),
                           face_vec |-> Contribution(face_vector(ArgFile))]
    /\ s_pc \in {"loaded", "extracted", "load_failed"} => Len(argv) = 1

\* C5 witness: the face detector raised and the envelope was emitted with
\* an empty face_vec and the embedding
C5_Witness ==
    /\ s_pc = "done"
    /\ Len(argv) = 1
    /\ face_vector(ArgFile).raised
    /\ IsEnvelope(stdout)
    /\ stdout[2].obj.face_vec = <<>>
    /\ Len(stdout[2].obj.clip_vec) > 0

Loaders    == {"_read_bgr", "read_bgr"}
Geometries == {"_pose_vector", "_face_vector", "pose_vector", "face_vector"}

\* C6: the loader of either program never raises; it returns what cv2.imread
\* gave when that is an image; otherwise the first frame PIL decodes, with
\* 3 channels in BGR order; and None when that fails too, in which case
\* the pose and face vectors of the file are empty.
C6_LoaderNeverRaises ==
    /\ fn_pc \in Loaders =>
          /\ ~fn_out.raised
          /\ fn_in.cv => fn_out.val = cv2_imread(fn_in)
          /\ (~fn_in.cv /\ fn_in.pil = "ok") =>
                /\ ~IsNone(fn_out.val)
                /\ fn_out.val.frame = 0
                /\ fn_out.val.channels = 3
                /\ fn_out.val.order = "BGR"
                /\ fn_out.val.pix = fn_in.pix
          /\ (~fn_in.cv /\ fn_in.pil # "ok") => IsNone(fn_out.val)
    /\ (fn_pc \in Geometries /\ ~fn_in.cv /\ fn_in.pil # "ok") => fn_out = Ok(<<>>)

\* C6 witness: a GIF cv2 does not decode, loaded through PIL from palette
\* mode to a 3-channel BGR image
C6_Witness ==
    /\ fn_pc = "_read_bgr"
    /\ ~fn_in.cv
    /\ PilMode(fn_in.path) = "P"
    /\ ~fn_out.raised /\ ~IsNone(fn_out.val)
    /\ fn_out.val.channels = 3 /\ fn_out.val.order = "BGR"

\* a pose vector was returned for a reported subject
PoseReported ==
    /\ fn_pc \in {"_pose_vector", "pose_vector"}
    /\ ~fn_out.raised
    /\ Len(fn_out.val) > 0

\* the square of the distance between the two shoulders the detector gave
ShoulderDist2 ==
    LET s == fn_in.pix.pose
    IN  (s.a - s.c) * (s.a - s.c) + (s.b - s.d) * (s.b - s.d)

\* the entries of the shoulders (landmarks 11 and 12) in the vector:
\* x and y of the left at 34 and 35, of the right at 37 and 38
MidpointAtOrigin(v) ==
    /\ v[34][2] = v[37][2] /\ v[35][2] = v[38][2] /\ v[34][2] = v[35][2]
    /\ v[34][1] + v[37][1] = 0
    /\ v[35][1] + v[38][1] = 0

\* the square of the distance between the shoulders in the vector is
\* num / den: entries <<a, rad>> and <<b, rad>> are (a - b) / sqrt(rad) apart
ShoulderGap2Is(v, num, den) ==
    ((v[34][1] - v[37][1]) * (v[34][1] - v[37][1])
       + (v[35][1] - v[38][1]) * (v[35][1] - v[38][1])) * den = v[34][2] * num

\* C7 as stated: for every reported subject the shoulder midpoint is at
\* (0,0) and the distance between the shoulders is 1.0.
C7_Original ==
    PoseReported => MidpointAtOrigin(fn_out.val) /\ ShoulderGap2Is(fn_out.val, 1, 1)

\* C7 amended: for every reported subject the shoulder midpoint is at
\* (0,0); the distance between the shoulders is 1.0 when the detected
\* shoulders are at least 1e-6 apart, and their distance divided by 1e-6
\* otherwise (0 when they coincide). Distances are in units of half of
\* 1e-6, so 1e-6 squared is 4.
C7_ShoulderFrame ==
    PoseReported =>
        /\ Len(fn_out.val) = 3 * 33
        /\ MidpointAtOrigin(fn_out.val)
        /\ IF ShoulderDist2 >= 2 * 2
           THEN ShoulderGap2Is(fn_out.val, 1, 1)
           ELSE ShoulderGap2Is(fn_out.val, ShoulderDist2, 2 * 2)

\* C7 witness: shoulders (3,1) and (0,2), away from the origin and more
\* than 1e-6 apart, are moved to (3,-1)/sqrt(40) and (-3,1)/sqrt(40)
C7_Witness ==
    /\ PoseReported
    /\ fn_pc = "_pose_vector"
    /\ fn_in.pix.pose = Shoulders(3, 1, 0, 2)
    /\ fn_out.val[34] = <<3, 40>> /\ fn_out.val[35] = <<-1, 40>>
    /\ fn_out.val[37] = <<-3, 40>> /\ fn_out.val[38] = <<1, 40>>

\* the single-item run was given the file the index run recorded
SameFile ==
    /\ pc = "done" /\ Len(items) = 1
    /\ s_pc \in {"extracted", "done"}
    /\ Len(argv) = 1 /\ Path(platform, argv[1]) = files[1]

\* C10: for the same file and the same answers of the decoders, the model
\* and the detectors, the record of build_index.py and the output of
\* embed_clip_pose.py hold the same three vectors.
C10_Equivalence ==
    SameFile =>
        /\ s_vecs.clip_vec = items[1].clip_vec
        /\ s_vecs.pose_vec = items[1].pose_vec
        /\ s_vecs.face_vec = items[1].face_vec
        /\ s_pc = "done" => stdout[2].obj = s_vecs

\* C10 witness: a picture with coincident shoulders, where the guard
\* decides the scale, gives three non-empty vectors, equal in both programs
C10_Witness ==
    /\ SameFile
    /\ s_pc = "done"
    /\ Disk(tree, files[1]).pix.pose = PoseCoincident
    /\ Len(s_vecs.clip_vec) > 0 /\ Len(s_vecs.pose_vec) > 0 /\ Len(s_vecs.face_vec) > 0
    /\ s_vecs.pose_vec = items[1].pose_vec
    /\ s_vecs.face_vec = items[1].face_vec

=============================================================================
